---- MODULE Spec2Model ----
(***************************************************************************)
(* A model of the botato_bank AI microservice: the Flask routes of app.py  *)
(* (validate-id, chat, health) and the two components of ai.py             *)
(* (validate_national_id, BankChatbot).                                    *)
(*                                                                         *)
(* Text is modelled as a sequence of one-character strings, so that the    *)
(* string operations of the code (strip, startswith, split, rsplit,        *)
(* slicing, substring search) are computed and not assumed.  Four symbols  *)
(* stand for a whole JSON document each (see JsonAtoms); every other       *)
(* symbol is one character.                                                *)
(***************************************************************************)
EXTENDS Integers, Sequences, FiniteSets, TLC

VARIABLES
    requests,      \* HTTP service: the requests received so far, in order
    outbound,      \* HTTP service: the chat-completion calls issued so far
    v_raw,         \* validator: a model text output T
    v_form,        \* validator: the code-fence wrapping applied to T
    v_wrapped,     \* validator: T wrapped in code-fence markup
    v_out,         \* validator: the outcome for T
    v_wout,        \* validator: the outcome for the wrapped text
    user_context,  \* chatbot: the UserContext handed to _build_context / chat
    block,         \* chatbot: the context block rendered from user_context
    chat_in,       \* chatbot: the arguments (message, history) of a chat call
    sent           \* chatbot: the message sequence given to the model

vars == <<requests, outbound, v_raw, v_form, v_wrapped, v_out, v_wout,
          user_context, block, chat_in, sent>>

(***************************************************************************)
(* Bounds of the model.                                                    *)
(***************************************************************************)
MaxChunks == 3       \* a model text output is at most this many chunks
MaxRequests == 2     \* requests the service receives in one behaviour
MaxAccounts == 2     \* accounts of a UserContext
MaxAcctLen == 5      \* characters of an account number
MaxHistory == 2      \* prior turns of a chat call

(***************************************************************************)
(* Python values.  None is PyNone; a str is a sequence of characters.      *)
(***************************************************************************)
PyNone == [t |-> "none"]
PyBool(b) == [t |-> "bool", b |-> b]
PyInt(n) == [t |-> "int", n |-> n]
PyStr(s) == [t |-> "str", s |-> s]
PyDict(d) == [t |-> "dict", d |-> d]
PyList(l) == [t |-> "list", l |-> l]

\* bool(x)
Truthy(x) ==
    CASE x.t = "none" -> FALSE
      [] x.t = "bool" -> x.b
      [] x.t = "str" -> x.s # <<>>
      [] x.t = "dict" -> DOMAIN x.d # {}
      [] x.t = "list" -> x.l # <<>>
      [] x.t = "int" -> x.n # 0

\* d.get(key, default), d the mapping of a dict
Get(d, key, default) == IF key \in DOMAIN d THEN d[key] ELSE default

\* x.get(key, default) on a Python value that is a dict
DictGet(x, key, default) == Get(x.d, key, default)

\* The outcome of a call: a returned value or a raised exception.
Return(v) == [exc |-> "none", value |-> v]
Raise(e) == [exc |-> e]
Pending == [exc |-> "pending"]

(***************************************************************************)
(* str operations.                                                         *)
(***************************************************************************)
\* The backtick character: a TLA+ string admits none, so it is written "'".
Backtick == "'"
Fence == <<Backtick, Backtick, Backtick>>
Whitespace == {" ", "\n"}

RECURSIVE LStrip(_)
LStrip(s) ==
    IF s # <<>> /\ Head(s) \in Whitespace THEN LStrip(Tail(s)) ELSE s

RECURSIVE RStrip(_)
RStrip(s) ==
    IF s # <<>> /\ s[Len(s)] \in Whitespace
    THEN RStrip(SubSeq(s, 1, Len(s) - 1))
    ELSE s

\* s.strip()
Strip(s) == RStrip(LStrip(s))

\* s.startswith(p)
StartsWith(s, p) == Len(s) >= Len(p) /\ SubSeq(s, 1, Len(p)) = p

\* the start positions of the occurrences of p in s
Occurrences(s, p) ==
    {i \in 1..(Len(s) - Len(p) + 1) : SubSeq(s, i, i + Len(p) - 1) = p}

\* p in s, for two str
Contains(s, p) == Occurrences(s, p) # {}

Min(S) == CHOOSE x \in S : \A y \in S : x <= y
Max(S) == CHOOSE x \in S : \A y \in S : x >= y

\* s.split("\n", 1)[-1]: what follows the first newline, or s when it has none
AfterFirstNewline(s) ==
    LET at == Occurrences(s, <<"\n">>)
    IN  IF at = {} THEN s ELSE SubSeq(s, Min(at) + 1, Len(s))

\* s.split(fence, 1)[0]: what precedes the first fence
BeforeFirstFence(s) ==
    LET at == Occurrences(s, Fence)
    IN  IF at = {} THEN s ELSE SubSeq(s, 1, Min(at) - 1)

\* s.rsplit(fence, 1)[0]: what precedes the last fence, or s when it has none
BeforeLastFence(s) ==
    LET at == Occurrences(s, Fence)
    IN  IF at = {} THEN s ELSE SubSeq(s, 1, Max(at) - 1)

\* s[-n:]
LastN(s, n) == IF Len(s) <= n THEN s ELSE SubSeq(s, Len(s) - n + 1, Len(s))

(***************************************************************************)
(* json.loads.  A JSON atom is a symbol standing for a complete JSON       *)
(* document that holds no backtick and no whitespace at its ends; two      *)
(* documents side by side, or a document next to any other character, are  *)
(* not JSON.                                                               *)
(***************************************************************************)
IdNumber == <<"A", "B", "1">>
Reason == <<"n", "o">>

JsonValue(a) ==
    CASE a = "V" -> PyDict([valid |-> PyBool(TRUE), idNumber |-> PyStr(IdNumber),
                            error |-> PyNone])
      [] a = "I" -> PyDict([valid |-> PyBool(FALSE), idNumber |-> PyNone,
                            error |-> PyStr(Reason)])
      [] a = "E" -> PyDict(<<>>)
      [] a = "A" -> PyList(<<>>)

JsonAtoms == {"V", "I", "E", "A"}

\* the texts json.loads accepts: one document, whitespace around it allowed
IsJsonText(s) == \E a \in JsonAtoms : Strip(s) = <<a>>

json_loads(s) ==
    LET t == Strip(s)
    IN  IF Len(t) = 1 /\ t[1] \in JsonAtoms
        THEN Return(JsonValue(t[1]))
        ELSE Raise("JSONDecodeError")

(***************************************************************************)
(* validate_national_id, from the reply of the model on (lines 66-84).     *)
(***************************************************************************)
ParseFailureMessage == <<"Failed to parse AI response">>

ParseFailure ==
    [valid |-> FALSE, idNumber |-> PyNone, error |-> PyStr(ParseFailureMessage)]

\* lines 66-70: trim, then drop the fence lines when the text opens with one
StripFences(content) ==
    LET raw == Strip(content)
    IN  IF StartsWith(raw, Fence)
        THEN Strip(BeforeLastFence(AfterFirstNewline(raw)))
        ELSE raw

\* lines 74-78: the coercion of the parsed document
Coerce(result) ==
    IF result.t # "dict"
    THEN Raise("AttributeError")
    ELSE Return([valid |-> Truthy(DictGet(result, "valid", PyBool(FALSE))),
                 idNumber |-> DictGet(result, "idNumber", PyNone),
                 error |-> DictGet(result, "error", PyNone)])

\* lines 79-84: the except clause
OnDecodeErrorPropagate == Raise("JSONDecodeError")
OnDecodeError == Return(ParseFailure)

\* lines 72-84
ParseVerdict(raw) ==
    LET parsed == json_loads(raw)
    IN  IF parsed.exc = "JSONDecodeError" THEN OnDecodeError
        ELSE Coerce(parsed.value)

\* lines 66-84
ParseResponse(content) == ParseVerdict(StripFences(content))

(***************************************************************************)
(* BankChatbot._build_context (lines 154-182).  A fixed piece of a format  *)
(* string is one symbol; what is interpolated is spelled in characters.    *)
(* An amount is a whole number of cents.                                   *)
(***************************************************************************)
DigitChars == <<"0", "1", "2", "3", "4", "5", "6", "7", "8", "9">>

RECURSIVE Digits(_)
Digits(n) ==
    IF n < 10 THEN <<DigitChars[n + 1]>>
    ELSE Digits(n \div 10) \o <<DigitChars[(n % 10) + 1]>>

Abs(n) == IF n < 0 THEN -n ELSE n

Unsigned2f(c) ==
    Digits(Abs(c) \div 100) \o <<".">>
        \o <<DigitChars[((Abs(c) \div 10) % 10) + 1], DigitChars[(Abs(c) % 10) + 1]>>

\* f"{x:.2f}"
Fmt2f(c) == (IF c < 0 THEN <<"-">> ELSE <<>>) \o Unsigned2f(c)

\* f"{x:+.2f}"
FmtSigned2f(c) == (IF c < 0 THEN <<"-">> ELSE <<"+">>) \o Unsigned2f(c)

\* "\n".join(parts)
RECURSIVE Join(_)
Join(parts) ==
    IF parts = <<>> THEN <<>>
    ELSE IF Len(parts) = 1 THEN parts[1]
    ELSE parts[1] \o <<"\n">> \o Join(Tail(parts))

\* line 165
Mask(acc) == <<"*", "*", "*">> \o LastN(Get(acc, "accountNumber", <<>>), 4)

\* lines 166-170
AccountLine(acc) ==
    <<"  - ">> \o Get(acc, "type", <<"Account">>) \o <<" (">> \o Mask(acc)
        \o <<"): ">> \o Fmt2f(Get(acc, "balance", 0)) \o <<" ">>
        \o Get(acc, "currency", <<"USD">>) \o <<" [Status: ">>
        \o Get(acc, "status", <<"Active">>) \o <<"]">>

\* lines 176-180 (the em dash of the format string is written --)
TransactionLine(tx) ==
    <<"  - [">> \o Get(tx, "date", <<>>) \o <<"] ">> \o Get(tx, "type", <<>>)
        \o <<": ">> \o FmtSigned2f(Get(tx, "amount", 0)) \o <<" USD -- ">>
        \o Get(tx, "description", <<"N/A">>) \o <<" (Balance after: ">>
        \o Fmt2f(Get(tx, "balanceAfter", 0)) \o <<")">>

\* lines 158-182, the list of parts
ContextParts(d) ==
    LET accounts == Get(d, "accounts", <<>>)
        transactions == Get(d, "recentTransactions", <<>>)
    IN  <<(<<"Customer: ">> \o Get(d, "userName", <<"Customer">>))>>
        \o (IF accounts # <<>>
            THEN <<(<<"\n", "Accounts:">>)>>
                 \o [i \in 1..Len(accounts) |-> AccountLine(accounts[i])]
            ELSE <<>>)
        \o (IF transactions # <<>>
            THEN <<(<<"\n", "Recent Transactions (last ">>
                    \o Digits(Len(transactions)) \o <<"):">>)>>
                 \o [i \in 1..Len(transactions) |-> TransactionLine(transactions[i])]
            ELSE <<>>)

\* lines 154-182; user_context is a Python value, None when the caller sent null
build_context(ctx) ==
    IF ctx.t # "dict" THEN Raise("AttributeError")
    ELSE Return(Join(ContextParts(ctx.d)))

(***************************************************************************)
(* BankChatbot.chat up to the outbound call (lines 130-143).               *)
(***************************************************************************)
SYSTEM_PROMPT == <<"You are Atomic Bank's AI banking assistant. ...">>

\* lines 139-140 keeping only the latest turn
AppendHistoryLatestOnly(messages, history) ==
    IF history.t # "list" THEN Raise("TypeError")
    ELSE IF history.l = <<>> THEN Return(messages)
    ELSE LET msg == history.l[Len(history.l)]
         IN  IF {"role", "content"} \subseteq DOMAIN msg
             THEN Return(Append(messages,
                                [role |-> msg["role"], content |-> msg["content"]]))
             ELSE Raise("KeyError")

\* lines 139-140: the loop over conversation_history
RECURSIVE AppendHistory(_, _)
AppendHistory(messages, history) ==
    IF history.t # "list" THEN Raise("TypeError")
    ELSE IF history.l = <<>> THEN Return(messages)
    ELSE LET msg == Head(history.l)
         IN  IF {"role", "content"} \subseteq DOMAIN msg
             THEN AppendHistory(
                      Append(messages,
                             [role |-> msg["role"], content |-> msg["content"]]),
                      PyList(Tail(history.l)))
             ELSE Raise("KeyError")

\* lines 130-143: the messages of the call, or the exception raised before it
ComposeMessages(user_message, conversation_history, ctx) ==
    LET context_block == build_context(ctx)
    IN  IF context_block.exc # "none" THEN context_block
        ELSE LET messages ==
                     <<[role |-> "system", content |-> SYSTEM_PROMPT],
                       [role |-> "system",
                        content |-> <<"Customer data:", "\n">> \o context_block.value]>>
                 with_history == AppendHistory(messages, conversation_history)
             IN  IF with_history.exc # "none" THEN with_history
                 ELSE Return(Append(with_history.value,
                                    [role |-> "user", content |-> user_message]))

\* line 152, given what the call produced
ChatReply(outcome) ==
    IF outcome.exc # "none" THEN outcome
    ELSE IF outcome.value.t # "str" THEN Raise("AttributeError")
    ELSE Return(Strip(outcome.value.s))

(***************************************************************************)
(* The routes of app.py.  A response is a status, a body and the exception *)
(* that left the view function, if one did: Flask answers an HTTPException *)
(* with its own status and any other exception with 500, in both cases     *)
(* with a body that is not the JSON of the route.                          *)
(***************************************************************************)
JsonBody(d) == [json |-> TRUE, data |-> d]
HtmlBody == [json |-> FALSE, data |-> <<>>]
NoBody == [json |-> FALSE, data |-> [pending |-> TRUE]]

Response(status, body) == [status |-> status, body |-> body, escaped |-> "none"]

HttpStatus(e) ==
    CASE e = "BadRequest" -> 400
      [] e = "UnsupportedMediaType" -> 415
      [] OTHER -> 500

Escaped(e) == [status |-> HttpStatus(e), body |-> HtmlBody, escaped |-> e]

\* line 20 with GIF images let through
allowedWithGif == {"image/jpeg", "image/png", "image/jpg", "image/webp", "image/gif"}

\* line 20
allowed == {"image/jpeg", "image/png", "image/jpg", "image/webp"}

\* lines 9-28 without the check of lines 27-28
PrechecksNoEmptyCheck(upload) ==
    IF ~upload.hasImage THEN "No image file provided"
    ELSE IF upload.filename = <<>> THEN "Empty filename"
    ELSE IF upload.content_type \notin allowed THEN "Invalid file type"
    ELSE "ok"

\* lines 9-28: the message of the first check that fails, or "ok"
Prechecks(upload) ==
    IF ~upload.hasImage THEN "No image file provided"
    ELSE IF upload.filename = <<>> THEN "Empty filename"
    ELSE IF upload.content_type \notin allowed THEN "Invalid file type"
    ELSE IF Len(upload.bytes) = 0 THEN "Empty file"
    ELSE "ok"

\* the body of lines 10-28
ValidationError(msg) ==
    [valid |-> FALSE, idNumber |-> PyNone, error |-> PyStr(<<msg>>)]

\* validate_national_id from line 28 on, given what the call produced
validate_national_id(outcome) ==
    IF outcome.exc # "none" THEN outcome
    ELSE IF outcome.value.t # "str" THEN Raise("AttributeError")
    ELSE ParseResponse(outcome.value.s)

\* lines 30-32
ValidateIdResponse(result) ==
    IF result.exc # "none" THEN Escaped(result.exc)
    ELSE Response(IF result.value.valid THEN 200 ELSE 400, JsonBody(result.value))

\* the outbound call issued twice
createTwice(calls, call) == Append(Append(calls, call), call)

\* client.chat.completions.create: one call to the provider
create(calls, call) == Append(calls, call)

MessageKey == <<"m", "e", "s", "s", "a", "g", "e">>

\* request.get_json() (line 50).  A body sent as JSON that does not parse
\* aborts with BadRequest; a body not sent as JSON yields None or aborts
\* with UnsupportedMediaType, depending on the Flask release.
get_json(body) ==
    IF body.mimetype_json
    THEN IF body.parses THEN {Return(body.data)} ELSE {Raise("BadRequest")}
    ELSE {Return(PyNone), Raise("UnsupportedMediaType")}

\* "message" in data (line 51)
HasMessage(data) ==
    CASE data.t = "dict" -> Return("message" \in DOMAIN data.d)
      [] data.t = "str" -> Return(Contains(data.s, MessageKey))
      [] data.t = "list" ->
            Return(\E i \in 1..Len(data.l) : data.l[i] = PyStr(MessageKey))
      [] OTHER -> Raise("TypeError")

MissingMessage == Response(400, JsonBody([error |-> PyStr(<<"Missing 'message' field">>)]))

\* lines 61-62 catching nothing
ChatFailureUncaught(e) == Escaped(e)

\* lines 61-62
ChatFailure(e) ==
    Response(500, JsonBody([error |-> PyStr(<<"Chat service error: ", e>>)]))

\* lines 51-59 up to the outbound call: a response, or the messages to send
ChatPrepare(data) ==
    IF ~Truthy(data) THEN [send |-> FALSE, response |-> MissingMessage]
    ELSE LET has == HasMessage(data)
         IN  IF has.exc # "none" THEN [send |-> FALSE, response |-> Escaped(has.exc)]
             ELSE IF ~has.value THEN [send |-> FALSE, response |-> MissingMessage]
             ELSE IF data.t # "dict"
                  THEN [send |-> FALSE, response |-> Escaped("TypeError")]
             ELSE LET composed ==
                          ComposeMessages(
                              data.d["message"],
                              Get(data.d, "conversationHistory", PyList(<<>>)),
                              Get(data.d, "userContext", PyDict(<<>>)))
                  IN  IF composed.exc # "none"
                      THEN [send |-> FALSE, response |-> ChatFailure(composed.exc)]
                      ELSE [send |-> TRUE, messages |-> composed.value]

\* lines 59-62, given what the call produced
ChatResponse(outcome) ==
    LET reply == ChatReply(outcome)
    IN  IF reply.exc # "none" THEN ChatFailure(reply.exc)
        ELSE Response(200, JsonBody([reply |-> PyStr(reply.value)]))

\* lines 65-67
HealthResponse == Response(200, JsonBody([status |-> PyStr(<<"healthy">>)]))

(***************************************************************************)
(* Inputs.                                                                 *)
(***************************************************************************)
SeqsUpTo(S, n) == UNION {[1..k -> S] : k \in 0..n}

Hi == <<"h", "i">>

\* the pieces a model text output is made of
Chunks == {Fence, <<Backtick>>, <<"\n">>, <<" ">>, <<"j">>, <<"V">>, <<"E">>, <<"A">>}

RECURSIVE TextsOf(_)
TextsOf(n) ==
    IF n = 0 THEN {<<>>}
    ELSE LET shorter == TextsOf(n - 1)
         IN  shorter \cup {t \o c : t \in shorter, c \in Chunks}

Texts == TextsOf(MaxChunks)

\* A wrapping in code-fence markup: the opening fence, a language tag or
\* none, the text and the closing fence, with or without line breaks.
Forms ==
    [applied : {TRUE}, tag : {<<>>, <<"j">>}, open_newline : BOOLEAN,
     close_newline : BOOLEAN]

NoForm ==
    [applied |-> FALSE, tag |-> <<>>, open_newline |-> FALSE, close_newline |-> FALSE]

Wrap(text, form) ==
    Fence \o form.tag \o (IF form.open_newline THEN <<"\n">> ELSE <<>>) \o text
        \o (IF form.close_newline THEN <<"\n">> ELSE <<>>) \o Fence

AccountNumbers == SeqsUpTo({"1", "2"}, MaxAcctLen)

FullAccount ==
    [accountNumber |-> <<"1", "2", "1", "2", "2", "1">>, type |-> <<"Savings">>,
     balance |-> -1210, currency |-> <<"EUR">>, status |-> <<"Frozen">>]

Accounts == {[accountNumber |-> n] : n \in AccountNumbers} \cup {FullAccount, <<>>}

Deposit ==
    [date |-> <<"2", "0", "2", "5">>, type |-> <<"Deposit">>, amount |-> 2500,
     description |-> <<"salary">>, balanceAfter |-> 102500]

TransactionLists == {<<>>, <<Deposit>>, <<Deposit, [amount |-> -995]>>}

\* the UserContexts of at most n accounts; None is what a JSON null becomes
ContextsOf(n) ==
    {PyNone, PyDict(<<>>)}
    \cup {PyDict([accounts |-> a]) : a \in SeqsUpTo(Accounts, n)}
    \cup {PyDict([userName |-> <<"A", "l", "i">>, accounts |-> <<a>>,
                  recentTransactions |-> t]) : a \in Accounts, t \in TransactionLists}

SampleContext ==
    PyDict([userName |-> <<"A", "l", "i">>,
            accounts |-> <<[accountNumber |-> <<"1", "2", "1", "2", "2", "1">>,
                            type |-> <<"Checking">>, balance |-> 150075]>>,
            recentTransactions |-> <<Deposit>>])

Turns == [role : {"user", "assistant"}, content : {Hi, <<"o", "k">>}]

Histories == SeqsUpTo(Turns, MaxHistory)

\* what a chat-completion call produces: an error of the client, a reply
\* without content, or a reply with text content
CallFailed == Raise("APIConnectionError")

VisionOutcomes ==
    {CallFailed, Return(PyNone)}
    \cup {Return(PyStr(t)) :
            t \in {<<"V">>, <<"I">>, <<"A">>, <<"j">>, Wrap(<<"V">>, [applied |-> TRUE,
                   tag |-> <<"j">>, open_newline |-> TRUE, close_newline |-> TRUE])}}

ChatOutcomes == {CallFailed, Return(PyNone), Return(PyStr(<<" ", "o", "k", "\n">>))}

UploadTypes == {"image/jpeg", "image/png", "image/jpg", "image/webp", "image/gif"}

Uploads ==
    {[hasImage |-> FALSE, filename |-> <<>>, content_type |-> "", bytes |-> <<>>],
     [hasImage |-> TRUE, filename |-> <<>>, content_type |-> "image/jpeg",
      bytes |-> <<255, 216>>]}
    \cup [hasImage : {TRUE}, filename : {<<"id.jpg">>},
          content_type : UploadTypes, bytes : {<<>>, <<255, 216>>}]

WithMessage ==
    {[message |-> PyStr(Hi)], [message |-> PyStr(Hi), userContext |-> SampleContext],
     [message |-> PyStr(Hi), userContext |-> PyNone],
     [message |-> PyStr(<<>>), conversationHistory |-> PyList(<<>>)],
     [message |-> PyStr(Hi), conversationHistory |-> PyNone],
     [message |-> PyStr(Hi), conversationHistory |-> PyList(<<[content |-> Hi]>>)],
     [message |-> PyStr(Hi), userContext |-> SampleContext,
      conversationHistory |-> PyList(<<[role |-> "user", content |-> Hi],
                                       [role |-> "assistant", content |-> <<"o", "k">>]>>)]}

JsonDocuments ==
    {PyNone, PyBool(FALSE), PyBool(TRUE), PyInt(0), PyInt(5), PyStr(<<>>), PyStr(Hi),
     PyStr(MessageKey), PyList(<<>>), PyList(<<PyStr(Hi)>>), PyList(<<PyStr(MessageKey)>>),
     PyDict(<<>>), PyDict([text |-> PyStr(Hi)])}
    \cup {PyDict(d) : d \in WithMessage}

\* bodies sent as JSON that parse
JsonBodies == {[mimetype_json |-> TRUE, parses |-> TRUE, data |-> d] : d \in JsonDocuments}

\* bodies that are not JSON: sent as JSON and malformed, or not sent as JSON
OtherBodies == {[mimetype_json |-> m, parses |-> FALSE, data |-> PyNone] : m \in BOOLEAN}

(***************************************************************************)
(* The service: requests are handled concurrently and share nothing.  A    *)
(* handler runs to its response or to its outbound call, and resumes when  *)
(* the call has produced its outcome.                                      *)
(***************************************************************************)
Received(route, input, response) ==
    [route |-> route, input |-> input, pc |-> "done", outcome |-> Pending,
     response |-> response]

Calling(route, input) ==
    [route |-> route, input |-> input, pc |-> "calling", outcome |-> Pending,
     response |-> [status |-> 0, body |-> NoBody, escaped |-> "none"]]

Idle ==
    /\ v_raw = <<>> /\ v_form = NoForm /\ v_wrapped = <<>>
    /\ v_out = Pending /\ v_wout = Pending
    /\ user_context = PyNone /\ block = Pending
    /\ chat_in = [message |-> <<>>, history |-> PyList(<<>>)] /\ sent = Pending

others == <<v_raw, v_form, v_wrapped, v_out, v_wout, user_context, block, chat_in, sent>>

Init == requests = <<>> /\ outbound = <<>> /\ Idle

\* validate_id, app.py lines 9-30, up to the outbound call (ai.py line 28)
ValidateIdBegin(upload) ==
    /\ Len(requests) < MaxRequests
    /\ IF Prechecks(upload) # "ok"
       THEN /\ requests' = Append(requests,
                    Received("validate-id", upload,
                             Response(400, JsonBody(ValidationError(Prechecks(upload))))))
            /\ outbound' = outbound
       ELSE /\ requests' = Append(requests, Calling("validate-id", upload))
            /\ outbound' = create(outbound,
                    [req |-> Len(requests) + 1, model |-> "VISION_MODEL",
                     messages |-> <<[role |-> "user", content |-> upload.bytes]>>])
    /\ UNCHANGED others

\* validate_id from the return of the call to the response (ai.py lines
\* 28-84, app.py lines 30-32)
ValidateIdEnd(i, outcome) ==
    /\ requests[i].route = "validate-id"
    /\ requests[i].pc = "calling"
    /\ requests' = [requests EXCEPT
            ![i].pc = "done",
            ![i].outcome = outcome,
            ![i].response = ValidateIdResponse(validate_national_id(outcome))]
    /\ UNCHANGED <<outbound, others>>

\* chat, app.py lines 50-59, up to the outbound call (ai.py line 145)
ChatBegin(body, data) ==
    /\ Len(requests) < MaxRequests
    /\ IF data.exc # "none"
       THEN /\ requests' = Append(requests, Received("chat", body, Escaped(data.exc)))
            /\ outbound' = outbound
       ELSE LET prepared == ChatPrepare(data.value)
            IN  IF prepared.send
                THEN /\ requests' = Append(requests, Calling("chat", body))
                     /\ outbound' = create(outbound,
                             [req |-> Len(requests) + 1, model |-> "CHAT_MODEL",
                              messages |-> prepared.messages])
                ELSE /\ requests' = Append(requests,
                             Received("chat", body, prepared.response))
                     /\ outbound' = outbound
    /\ UNCHANGED others

\* chat from the return of the call to the response (ai.py lines 145-152,
\* app.py lines 59-62)
ChatEnd(i, outcome) ==
    /\ requests[i].route = "chat"
    /\ requests[i].pc = "calling"
    /\ requests' = [requests EXCEPT
            ![i].pc = "done",
            ![i].outcome = outcome,
            ![i].response = ChatResponse(outcome)]
    /\ UNCHANGED <<outbound, others>>

\* health, lines 65-67
Health ==
    /\ Len(requests) < MaxRequests
    /\ requests' = Append(requests, Received("health", <<>>, HealthResponse))
    /\ UNCHANGED <<outbound, others>>

Next ==
    \/ \E upload \in Uploads : ValidateIdBegin(upload)
    \/ \E i \in DOMAIN requests : \E outcome \in VisionOutcomes : ValidateIdEnd(i, outcome)
    \/ \E body \in JsonBodies : \E data \in get_json(body) : ChatBegin(body, data)
    \/ \E body \in OtherBodies : \E data \in get_json(body) : ChatBegin(body, data)
    \/ \E i \in DOMAIN requests : \E outcome \in ChatOutcomes : ChatEnd(i, outcome)
    \/ Health

Spec == Init /\ [][Next]_vars

(***************************************************************************)
(* validate_national_id as a function of the model's text output.          *)
(***************************************************************************)
http == <<requests, outbound>>

InitValidator ==
    /\ requests = <<>> /\ outbound = <<>>
    /\ v_raw \in Texts /\ v_form = NoForm /\ v_wrapped = <<>>
    /\ v_out = Pending /\ v_wout = Pending
    /\ user_context = PyNone /\ block = Pending
    /\ chat_in = [message |-> <<>>, history |-> PyList(<<>>)] /\ sent = Pending

ValidateText ==
    /\ v_out = Pending
    /\ v_out' = ParseResponse(v_raw)
    /\ UNCHANGED <<http, v_raw, v_form, v_wrapped, v_wout, user_context, block, chat_in, sent>>

WrapInFence(form) ==
    /\ ~v_form.applied
    /\ v_form' = form
    /\ v_wrapped' = Wrap(v_raw, form)
    /\ UNCHANGED <<http, v_raw, v_out, v_wout, user_context, block, chat_in, sent>>

ValidateWrapped ==
    /\ v_form.applied
    /\ v_wout = Pending
    /\ v_wout' = ParseResponse(v_wrapped)
    /\ UNCHANGED <<http, v_raw, v_form, v_wrapped, v_out, user_context, block, chat_in, sent>>

NextValidator ==
    \/ ValidateText
    \/ \E form \in Forms : WrapInFence(form)
    \/ ValidateWrapped

SpecValidator == InitValidator /\ [][NextValidator]_vars

(***************************************************************************)
(* BankChatbot._build_context as a function of the UserContext.            *)
(***************************************************************************)
InitContext ==
    /\ requests = <<>> /\ outbound = <<>>
    /\ v_raw = <<>> /\ v_form = NoForm /\ v_wrapped = <<>>
    /\ v_out = Pending /\ v_wout = Pending
    /\ user_context \in ContextsOf(MaxAccounts) /\ block = Pending
    /\ chat_in = [message |-> <<>>, history |-> PyList(<<>>)] /\ sent = Pending

BuildContext ==
    /\ block = Pending
    /\ block' = build_context(user_context)
    /\ UNCHANGED <<http, v_raw, v_form, v_wrapped, v_out, v_wout, user_context, chat_in, sent>>

NextContext == BuildContext

SpecContext == InitContext /\ [][NextContext]_vars

(***************************************************************************)
(* BankChatbot.chat as a function of its arguments.                        *)
(***************************************************************************)
InitChat ==
    /\ requests = <<>> /\ outbound = <<>>
    /\ v_raw = <<>> /\ v_form = NoForm /\ v_wrapped = <<>>
    /\ v_out = Pending /\ v_wout = Pending
    /\ user_context \in {PyDict(<<>>), SampleContext, PyNone} /\ block = Pending
    /\ chat_in \in [message : {Hi, <<>>}, history : {PyList(h) : h \in Histories}]
    /\ sent = Pending

\* chat, lines 130-150: sent is the messages argument of the call
Chat ==
    /\ sent = Pending
    /\ sent' = ComposeMessages(chat_in.message, chat_in.history, user_context)
    /\ block' = build_context(user_context)
    /\ UNCHANGED <<http, v_raw, v_form, v_wrapped, v_out, v_wout, user_context, chat_in>>

NextChat == Chat

SpecChat == InitChat /\ [][NextChat]_vars

(***************************************************************************)
(* Properties.                                                             *)
(***************************************************************************)
\* the outbound calls issued for request i
CallsOf(i) == Cardinality({k \in DOMAIN outbound : outbound[k].req = i})

ValidateRequests == {i \in DOMAIN requests : requests[i].route = "validate-id"}
ChatRequests == {i \in DOMAIN requests : requests[i].route = "chat"}

\* the upload passes every pre-check of the validate-id route
PassesPrechecks(upload) ==
    /\ upload.hasImage
    /\ upload.filename # <<>>
    /\ upload.content_type \in {"image/jpeg", "image/png", "image/jpg", "image/webp"}
    /\ upload.bytes # <<>>

\* the body is a JSON object with a message field
CarriesMessage(body) ==
    /\ body.mimetype_json /\ body.parses
    /\ body.data.t = "dict"
    /\ "message" \in DOMAIN body.data.d

\* the body is {error: string}
IsErrorBody(body) ==
    /\ body.json
    /\ DOMAIN body.data = {"error"}
    /\ body.data["error"].t = "str"

\* the body is {reply: string}
IsReplyBody(body) ==
    /\ body.json
    /\ DOMAIN body.data = {"reply"}
    /\ body.data["reply"].t = "str"

\* C1: a validate-id request whose upload has a content-type outside
\* {image/jpeg, image/png, image/jpg, image/webp} is answered 400 and no
\* outbound call is ever issued for it.
C1_DisallowedTypeRejected ==
    \A i \in ValidateRequests :
        requests[i].input.content_type
            \notin {"image/jpeg", "image/png", "image/jpg", "image/webp"}
        => /\ requests[i].pc = "done"
           /\ requests[i].response.status = 400
           /\ CallsOf(i) = 0

C1_Witness ==
    \E i \in ValidateRequests :
        /\ requests[i].input.hasImage
        /\ requests[i].input.filename # <<>>
        /\ requests[i].input.bytes # <<>>
        /\ requests[i].input.content_type = "image/gif"
        /\ requests[i].response.status = 400
        /\ requests[i].response.body.data.error = PyStr(<<"Invalid file type">>)
        /\ outbound = <<>>

\* C2: a validate-id request whose uploaded file has no bytes is answered
\* 400, and no outbound call has been issued for it when it is answered.
C2_EmptyUploadRejected ==
    \A i \in ValidateRequests :
        (requests[i].input.hasImage /\ requests[i].input.bytes = <<>>)
        => /\ requests[i].pc = "done"
           /\ requests[i].response.status = 400
           /\ CallsOf(i) = 0

C2_Witness ==
    \E i \in ValidateRequests :
        /\ requests[i].input.hasImage
        /\ requests[i].input.filename # <<>>
        /\ requests[i].input.content_type = "image/png"
        /\ requests[i].input.bytes = <<>>
        /\ requests[i].response.status = 400
        /\ requests[i].response.body.data.error = PyStr(<<"Empty file">>)
        /\ CallsOf(i) = 0

\* C3: every validate-id request ends with status 200 or 400: 200 when the
\* ValidationResult has valid = true, 400 in every other case.
C3_Only200Or400 ==
    \A i \in ValidateRequests :
        requests[i].pc = "done"
        => /\ requests[i].response.status \in {200, 400}
           /\ requests[i].response.body.json
           /\ requests[i].response.status = 200
                <=> requests[i].response.body.data.valid

C5_AnyWrappingSameResult ==
    (v_out # Pending /\ v_wout # Pending /\ v_out.exc = "none") => v_wout = v_out

\* C5, amended: when the opening fence line (the fence and an optional
\* language tag) ends with a line break and T does not itself open with a
\* fence, the validator's outcome for the wrapped text (the ValidationResult
\* returned, or the exception raised) is its outcome for T.
C5_FencedSameResult ==
    (/\ v_out # Pending
     /\ v_wout # Pending
     /\ v_form.open_newline
     /\ ~StartsWith(Strip(v_raw), Fence))
    => v_wout = v_out

C5_Witness ==
    /\ v_raw = <<" ", "V", "\n">>
    /\ v_form.tag = <<"j">>
    /\ v_form.open_newline
    /\ v_wrapped = Fence \o <<"j", "\n", " ", "V", "\n">> \o Fence
    /\ v_wout = v_out
    /\ v_out.exc = "none"
    /\ v_out.value.valid

\* the accounts of the UserContext that carry a non-empty account number
NumberedAccounts ==
    IF user_context.t = "dict" /\ "accounts" \in DOMAIN user_context.d
    THEN {i \in DOMAIN user_context.d.accounts :
            /\ "accountNumber" \in DOMAIN user_context.d.accounts[i]
            /\ user_context.d.accounts[i].accountNumber # <<>>}
    ELSE {}

\* C6: for every account of the UserContext, the rendered block shows "***"
\* followed by the last four characters of its number, and the full account
\* number appears nowhere in the block.
C6_FullNumberNeverRendered ==
    block.exc = "none"
    => \A i \in NumberedAccounts :
          LET number == user_context.d.accounts[i].accountNumber
          IN  /\ Contains(block.value, <<"*", "*", "*">> \o LastN(number, 4))
              /\ ~Contains(block.value, number)

\* the masking at work: a number longer than four characters is cut
C6_Masked ==
    /\ block.exc = "none"
    /\ \E i \in NumberedAccounts :
          LET number == user_context.d.accounts[i].accountNumber
          IN  /\ Len(number) > 4
              /\ Contains(block.value, <<"*", "*", "*">> \o LastN(number, 4))
              /\ ~Contains(block.value, number)

\* C7: the message sequence given to the model is the system persona, then
\* the context block rendered from the UserContext, then the prior turns in
\* their order with role and content unchanged, then the new message as a
\* user message; no prior turn is dropped, reordered or duplicated.
C7_MessageSequence ==
    sent.exc = "none"
    => LET h == chat_in.history.l
           n == Len(h)
       IN  /\ Len(sent.value) = n + 3
           /\ sent.value[1] = [role |-> "system", content |-> SYSTEM_PROMPT]
           /\ sent.value[2].role = "system"
           /\ block.exc = "none"
           /\ sent.value[2].content = <<"Customer data:", "\n">> \o block.value
           /\ \A k \in 1..n :
                 /\ sent.value[2 + k].role = h[k].role
                 /\ sent.value[2 + k].content = h[k].content
           /\ sent.value[n + 3] = [role |-> "user", content |-> chat_in.message]

C7_Witness ==
    /\ sent.exc = "none"
    /\ user_context = SampleContext
    /\ Len(chat_in.history.l) >= 2
    /\ chat_in.history.l[1] # chat_in.history.l[2]
    /\ Len(sent.value) = Len(chat_in.history.l) + 3

\* C8: a chat request whose body is not JSON, or is JSON without the message
\* field, is answered 400 with a body {error: string}, and no outbound call
\* is issued for it.
C8_BadBodyIs400 ==
    \A i \in ChatRequests :
        ~CarriesMessage(requests[i].input)
        => /\ requests[i].pc = "done"
           /\ requests[i].response.status = 400
           /\ IsErrorBody(requests[i].response.body)
           /\ CallsOf(i) = 0

\* C9: a chat request that carries a message is answered 200 with {reply}
\* when processing succeeds and 500 with an error string when anything fails;
\* no exception leaves the handler, whatever happened to the other requests.
C9_ChatAnswers200Or500 ==
    \A i \in ChatRequests :
        (CarriesMessage(requests[i].input) /\ requests[i].pc = "done")
        => /\ requests[i].response.escaped = "none"
           /\ \/ /\ requests[i].response.status = 200
                 /\ IsReplyBody(requests[i].response.body)
                 /\ requests[i].outcome.exc = "none"
                 /\ requests[i].outcome.value.t = "str"
              \/ /\ requests[i].response.status = 500
                 /\ IsErrorBody(requests[i].response.body)
                 /\ ~(requests[i].outcome.exc = "none"
                      /\ requests[i].outcome.value.t = "str")

C9_Witness ==
    /\ Len(requests) >= 2
    /\ requests[1].route = "chat"
    /\ requests[1].outcome = CallFailed
    /\ requests[1].response.status = 500
    /\ requests[2].route = "chat"
    /\ requests[2].response.status = 200
    /\ requests[2].response.body.data.reply = PyStr(<<"o", "k">>)

\* the prompt of the chat request can be built: userContext is absent or an
\* object, conversationHistory absent or a list of turns with role and content
PromptBuilds(d) ==
    /\ "userContext" \in DOMAIN d => d["userContext"].t = "dict"
    /\ "conversationHistory" \in DOMAIN d =>
          /\ d["conversationHistory"].t = "list"
          /\ \A k \in DOMAIN d["conversationHistory"].l :
                {"role", "content"} \subseteq DOMAIN d["conversationHistory"].l[k]

====
